---- MODULE Spec2Model ----
(***************************************************************************)
(* The recursive-descent parser and scope checker of sintatico.py          *)
(* (class Parser) and the tree it builds (class Node) as a state machine.  *)
(*                                                                         *)
(* Parser only ever reads self.tokens[self.current] (current_token) and    *)
(* self.current only grows, so the state holds the token under the cursor, *)
(* tok: every time the cursor moves, the token at the new position comes   *)
(* into view, and tok = NoToken means len(self.tokens) = current.  The     *)
(* variable input says where the tokens come from: a list given in         *)
(* advance (input.tokens), followed by at most input.free tokens drawn     *)
(* from the alphabet one by one.  Under Spec and LiveSpec a behaviour      *)
(* stands for one token list of at most MaxLen (LiveLen) tokens; under     *)
(* TreeSpec it runs on one of the lists of Programs.                       *)
(*                                                                         *)
(* The Python call stack is the variable stack: one frame per active       *)
(* production, holding the place to continue at (pc) and the locals that   *)
(* a later statement of the production reads.  One action is one           *)
(* statement group of a production up to its next token consumption or     *)
(* call; a return hands its node to the statement of the caller that       *)
(* takes it (Deliver).  Children lists and the texts built by flattening   *)
(* (parse_expression, the for-loop clauses) are data that no condition of  *)
(* the parser reads: they are built when input.track holds (TreeSpec) and  *)
(* left out otherwise, where FlatText stands for every flattened text.     *)
(***************************************************************************)
EXTENDS Integers, Sequences, FiniteSets, TLC

\* Longest token list explored by Spec.
MaxLen == 15

\* Longest token list explored by LiveSpec.
LiveLen == 12

\* Most tokens in an initializer, a condition or an increment of Programs.
MaxWords == 2

\* Texts of IDENTIFIER and TYPE tokens.
Names == {"x", "y"}
Types == {"int"}

\* Token kinds that stand for exactly one token text in the model.
PlainKinds ==
  {"PROGRAM_START", "PROGRAM_END", "BLOCK_START", "BLOCK_END",
   "FUNCTION_DEFINITION", "VARIABLE_DEFINITION", "IF_CONDITIONAL",
   "ELSE_CONDITIONAL", "FOR_LOOP", "RETURN", "LEFT_PAREN", "RIGHT_PAREN",
   "START_STATEMENT", "COMMAND_END", "ASSIGN", "OTHER"}

\* class Token: a (type, value) pair.
Token(type_, value) == [type |-> type_, value |-> value]

Alphabet ==
  {Token(k, k) : k \in PlainKinds}
    \cup {Token("IDENTIFIER", n) : n \in Names}
    \cup {Token("TYPE", t) : t \in Types}

\* What current_token() returns past the end of the list (Python None).
NoToken == Token("None", "")

VARIABLES
  tok,                \* current_token(): tokens[current], or NoToken
  current,            \* self.current
  block_counter,      \* self.block_counter
  defined_functions,  \* self.defined_functions
  variable_scopes,    \* self.variable_scopes: sequence of name -> type maps
  stack,              \* the call stack of productions
  outcome,            \* how the run of parse() stands or ended
  returned,           \* the node a production has just returned, or NoNode
  popped,             \* history: the frame that parse_block popped last
  input,              \* self.tokens as far as it is given, and what is built
  written             \* the lines written to tree.krn, <<>> before that

vars ==
  <<tok, current, block_counter, defined_functions, variable_scopes, stack,
    outcome, returned, popped, input, written>>

\* The tokens that the list may hold at index i.
TokensAt(i) ==
  IF i < Len(input.tokens) THEN {input.tokens[i + 1]}
  ELSE IF i < Len(input.tokens) + input.free THEN Alphabet \cup {NoToken}
  ELSE {NoToken}

----------------------------------------------------------------------------
\* Outcomes of a run.

Running == [status |-> "running", exc |-> "", msg |-> "", subject |-> ""]
Returned == [status |-> "returned", exc |-> "", msg |-> "", subject |-> ""]
Raised(exc, msg, subject) ==
  [status |-> "raised", exc |-> exc, msg |-> msg, subject |-> subject]

\* raise RuntimeError(f"Unexpected token: {token}, expected: {type_}.")
UnexpectedToken(type_) == Raised("RuntimeError", "Unexpected token", type_)
MismatchedBlocks ==
  Raised("RuntimeError", "Syntax error: Mismatched block delimiters.", "")
FunctionAlreadyDefined(name) ==
  Raised("RuntimeError", "Semantic error: Function is already defined.", name)
ParameterAlreadyDefined(name) ==
  Raised("RuntimeError", "Semantic error: Parameter is already defined.", name)
VariableAlreadyDefined(name) ==
  Raised("RuntimeError",
         "Semantic error: Variable is already defined in the current scope.",
         name)
VariableNotDefined(name) ==
  Raised("RuntimeError", "Semantic error: Variable is not defined.", name)
ExpectedVariableDefinition ==
  Raised("RuntimeError", "Syntax error: Expected variable definition.", "")
UnexpectedEndOfInput ==
  Raised("RuntimeError", "Syntax error: Unexpected end of input.", "")
\* self.current_token().type on None: 'NoneType' object has no attribute 'type'
NoneHasNoType == Raised("AttributeError", "NoneType has no attribute type", "")

SyntaxMessages ==
  {"Unexpected token", "Syntax error: Mismatched block delimiters.",
   "Syntax error: Expected variable definition.",
   "Syntax error: Unexpected end of input."}
SemanticMessages ==
  {"Semantic error: Function is already defined.",
   "Semantic error: Parameter is already defined.",
   "Semantic error: Variable is already defined in the current scope.",
   "Semantic error: Variable is not defined."}

\* The error kind of a raised RuntimeError, by its message.
IsSyntaxError(o) ==
  o.status = "raised" /\ o.exc = "RuntimeError" /\ o.msg \in SyntaxMessages
IsSemanticError(o) ==
  o.status = "raised" /\ o.exc = "RuntimeError" /\ o.msg \in SemanticMessages

----------------------------------------------------------------------------
\* Nodes, frames and scope helpers.

\* class Node: Node(type_, value) with no children yet.  first is history:
\* the index of the first token of the production that returned the node
\* (set by Stamp when input.track holds).
Node(type_, value) ==
  [type |-> type_, value |-> value, children |-> <<>>, first |-> 0]
NoNode == Node("", "")

\* Node.add_child as it would be if it put the child in front.
add_child_in_front(node, child) ==
  IF input.track
  THEN [node EXCEPT !.children = <<child>> \o @]
  ELSE node

\* Node.add_child
add_child(node, child) ==
  IF input.track
  THEN [node EXCEPT !.children = Append(@, child)]
  ELSE node

\* "  " * level
RECURSIVE Indent(_)
Indent(level) == IF level = 0 THEN "" ELSE "  " \o Indent(level - 1)

\* Node.print_tree as it would be if the children were rendered at the
\* level of their parent.
RECURSIVE print_tree_flat(_, _)
print_tree_flat(node, level) ==
  LET RECURSIVE Rest(_)
      Rest(children) ==
        IF children = <<>> THEN <<>>
        ELSE print_tree_flat(Head(children), level) \o Rest(Tail(children))
  IN <<Indent(level) \o node.type \o "(" \o node.value \o ")">>
       \o Rest(node.children)

\* Node.print_tree: the lines of the text it returns, in order, each
\* without its "\n".
RECURSIVE print_tree(_, _)
print_tree(node, level) ==
  LET RECURSIVE Rest(_)
      Rest(children) ==
        IF children = <<>> THEN <<>>
        ELSE print_tree(Head(children), level + 1) \o Rest(Tail(children))
  IN <<Indent(level) \o node.type \o "(" \o node.value \o ")">>
       \o Rest(node.children)

\* The text of a node that flattening built (expr_value and the like), where
\* texts are not built.
FlatText == "..."

\* A text under construction is the sequence of the pieces appended to it.
\* value += token.value + " "
Flatten(text, value) == IF input.track THEN text \o <<value, " ">> ELSE text

\* str.strip() as it would be if it left the text as it is.
strip_nothing(text) == text

\* str.strip() of a text whose pieces are token texts and " "; a token
\* text is a lexical unit, with no white space at its ends.
RECURSIVE strip(_)
strip(text) ==
  IF text # <<>> /\ Head(text) \in {"", " "} THEN strip(Tail(text))
  ELSE IF text # <<>> /\ text[Len(text)] \in {"", " "}
  THEN strip(SubSeq(text, 1, Len(text) - 1))
  ELSE text

\* The string that the pieces make up.
RECURSIVE Str(_)
Str(text) == IF text = <<>> THEN "" ELSE Head(text) \o Str(Tail(text))

\* value.strip() of a flattened text
Stripped(text) == IF input.track THEN Str(strip(text)) ELSE FlatText

\* History for the productions parse_block and parse_function_definition:
\* the scope stack and the function set when the production was entered.
Snapshot == [scopes |-> variable_scopes, functions |-> defined_functions]
NoSnapshot == [scopes |-> <<>>, functions |-> {}]

\* A call-stack frame: where the production continues and its locals
\* (ty: func_type / var_type, id: func_name / var_name / return_value,
\* pty: param_type, node: program_node / block_node / params_node, then
\* func_node / var_node / condition, then if_node, kept: else_node /
\* init_node, condition_expr, increment_expr, loop_body_node, text: the
\* value of the node that a flattening loop is building), and history
\* (start: the cursor when the production was entered, saved: see Snapshot).
Frame(pc, ty, id, pty) ==
  [pc |-> pc, ty |-> ty, id |-> id, pty |-> pty, node |-> NoNode,
   kept |-> <<>>, text |-> <<>>, start |-> 0, saved |-> NoSnapshot]
Enter(pc) ==
  IF input.track
  THEN [Frame(pc, "", "", "") EXCEPT
          !.start = current,
          !.saved = IF pc \in {"block", "function"}
                    THEN Snapshot ELSE NoSnapshot]
  ELSE Frame(pc, "", "", "")

Top == stack[Len(stack)]
At(pc) == outcome.status = "running" /\ Len(stack) > 0 /\ Top.pc = pc

\* The stack with its top frame replaced.
Goto(f) == [stack EXCEPT ![Len(stack)] = f]
\* The stack after the top production calls another one.
Call(f, callee) == Append(Goto(f), Enter(callee))
\* The stack after the top production returns.
Ret == SubSeq(stack, 1, Len(stack) - 1)

\* The node that the top production returns.
Stamp(node) == IF input.track THEN [node EXCEPT !.first = Top.start] ELSE node

\* What the statement that called the returning production does with the
\* node it gets, by the place the caller continues at:
\*   program_node / block_node / func_node / if_node .add_child(...)
\*   var_node.value += f" = {expr.value}"
\*   condition = ...;  else_node.add_child(...); if_node.add_child(else_node)
\*   init_node = ...;  loop_body_node = ...
Take(f, node) ==
  CASE f.pc \in {"parse_loop", "block_loop", "function_return", "if_else"} ->
         [f EXCEPT !.node = add_child(@, node)]
    [] f.pc = "variable_end" ->
         [f EXCEPT !.node = [@ EXCEPT !.value = @ \o " = " \o node.value]]
    [] f.pc = "if_close" -> [f EXCEPT !.node = node]
    [] f.pc = "if_return" ->
         [f EXCEPT !.node = add_child(@, add_child(f.kept[1], node)),
                   !.kept = <<>>]
    [] f.pc = "for_condition" -> [f EXCEPT !.kept = <<node>>]
    [] f.pc = "for_return" -> [f EXCEPT !.kept = Append(@, node)]
    [] OTHER -> f

\* The stack after the top production returns node to its caller.
Deliver(node) ==
  IF Len(stack) = 1 THEN Ret
  ELSE [Ret EXCEPT ![Len(stack) - 1] = Take(stack[Len(stack) - 1], node)]

EmptyScope == [n \in {} |-> ""]
\* self.variable_scopes[-1][name] = type_
Bind(scopes, name, type_) ==
  [scopes EXCEPT ![Len(scopes)] =
     [n \in DOMAIN scopes[Len(scopes)] \cup {name} |->
        IF n = name THEN type_ ELSE scopes[Len(scopes)][n]]]
\* Pop as it would be if it emptied the scope stack.
PopAll(scopes) == <<>>

\* self.variable_scopes.pop()
Pop(scopes) == SubSeq(scopes, 1, Len(scopes) - 1)
\* name in self.variable_scopes[-1]
InInnermost(scopes, name) == name \in DOMAIN scopes[Len(scopes)]

\* is_variable_defined as it would be if it looked at the innermost frame
\* only.
is_variable_defined_innermost(scopes, var_name) ==
  var_name \in DOMAIN scopes[Len(scopes)]

\* Parser.is_variable_defined
is_variable_defined(scopes, var_name) ==
  \E i \in 1..Len(scopes) : var_name \in DOMAIN scopes[i]

----------------------------------------------------------------------------
\* The cursor.

\* eat's condition: token and token.type == type_
Matches(type_) == tok # NoToken /\ tok.type = type_

\* eat's adjustment of block_counter for the kind it was asked to consume.
BlockDelta(type_) ==
  IF type_ = "BLOCK_START" THEN 1
  ELSE IF type_ = "BLOCK_END" THEN -1
  ELSE 0

\* self.current += 1, with block_counter changed by delta; the token at the
\* new position comes into view.
Advance(delta) ==
  /\ current' = current + 1
  /\ tok' \in TokensAt(current + 1)
  /\ block_counter' = block_counter + delta

Stay == UNCHANGED <<tok, current, block_counter>>

\* Parser.eat(type_) followed by straight-line code that leaves the parser
\* with the given call stack and scopes and hands node_ back to the caller
\* (NoNode: no return); when eat raises, nothing but the outcome changes.
Eat(type_, stack_, scopes_, node_) ==
  IF Matches(type_)
  THEN /\ Advance(BlockDelta(type_))
       /\ stack' = stack_
       /\ variable_scopes' = scopes_
       /\ returned' = node_
       /\ UNCHANGED <<outcome, defined_functions, popped, input, written>>
  ELSE /\ outcome' = UnexpectedToken(type_)
       /\ Stay
       /\ UNCHANGED <<stack, variable_scopes, returned, defined_functions,
                      popped, input, written>>

\* A raise that leaves the cursor where it is.
RaiseHere(o) ==
  /\ outcome' = o
  /\ Stay
  /\ UNCHANGED <<stack, variable_scopes, returned, defined_functions, popped,
                 input, written>>

\* A raise right after a successful eat of a token that is no block delimiter.
RaiseAfterEat(o) ==
  /\ outcome' = o
  /\ Advance(0)
  /\ UNCHANGED <<stack, variable_scopes, returned, defined_functions, popped,
                 input, written>>

----------------------------------------------------------------------------
\* Parser.__init__

\* The state after Parser(tokens), for the token lists that from describes.
Start(from) ==
  /\ input = from
  /\ current = 0
  /\ tok \in TokensAt(0)
  /\ block_counter = 0
  /\ defined_functions = {}
  /\ variable_scopes = <<EmptyScope>>
  /\ stack = <<Enter("parse")>>
  /\ outcome = Running
  /\ returned = NoNode
  /\ popped = EmptyScope
  /\ written = <<>>

\* Every token list of at most MaxLen tokens over the alphabet.
Init == Start([tokens |-> <<>>, free |-> MaxLen, track |-> FALSE])

----------------------------------------------------------------------------
\* Parser.parse

\* program_node = Node("Program"); self.eat("PROGRAM_START")
ParseStart ==
  /\ At("parse")
  /\ Eat("PROGRAM_START",
         Goto([Top EXCEPT !.pc = "parse_loop", !.node = Node("Program", "")]),
         variable_scopes, NoNode)

\* while self.current_token() and self.current_token().type != "PROGRAM_END"
ParseLoop ==
  /\ At("parse_loop")
  /\ tok # NoToken /\ tok.type # "PROGRAM_END"
  /\ stack' = Call(Top, "statement")
  /\ Stay
  /\ returned' = NoNode
  /\ UNCHANGED <<variable_scopes, defined_functions, outcome, popped, input,
                 written>>

\* ParseEnd as it would be if PROGRAM_END were counted like a closing
\* delimiter and the tree returned without the test of block_counter.
ParseEndUnchecked ==
  /\ At("parse_loop")
  /\ ~(tok # NoToken /\ tok.type # "PROGRAM_END")
  /\ IF Matches("PROGRAM_END")
     THEN /\ Advance(BlockDelta("BLOCK_END"))
          /\ outcome' = Returned
          /\ stack' = Deliver(Stamp(Top.node))
          /\ returned' = Stamp(Top.node)
          /\ UNCHANGED <<variable_scopes, defined_functions, popped, input,
                         written>>
     ELSE RaiseHere(UnexpectedToken("PROGRAM_END"))

\* self.eat("PROGRAM_END"), the block_counter test and the return.
ParseEnd ==
  /\ At("parse_loop")
  /\ ~(tok # NoToken /\ tok.type # "PROGRAM_END")
  /\ IF Matches("PROGRAM_END")
     THEN /\ Advance(BlockDelta("PROGRAM_END"))
          /\ IF block_counter + BlockDelta("PROGRAM_END") # 0
             THEN /\ outcome' = MismatchedBlocks
                  /\ UNCHANGED <<stack, returned, popped, input, written>>
             ELSE /\ outcome' = Returned
                  /\ stack' = Deliver(Stamp(Top.node))
                  /\ returned' = Stamp(Top.node)
          /\ UNCHANGED <<variable_scopes, defined_functions, popped, input,
                         written>>
     ELSE RaiseHere(UnexpectedToken("PROGRAM_END"))

----------------------------------------------------------------------------
\* Parser.parse_statement_or_block: the production it returns the result of
\* takes its place on the call stack.

StatementTarget(type_) ==
  CASE type_ = "BLOCK_START" -> "block"
    [] type_ = "FUNCTION_DEFINITION" -> "function"
    [] type_ = "VARIABLE_DEFINITION" -> "variable"
    [] type_ = "IF_CONDITIONAL" -> "if"
    [] type_ = "FOR_LOOP" -> "for"
    [] OTHER -> "generic"

Dispatch ==
  /\ At("statement")
  /\ IF tok = NoToken
     THEN RaiseHere(NoneHasNoType)
     ELSE /\ stack' = Goto(Enter(StatementTarget(tok.type)))
          /\ Stay
          /\ returned' = NoNode
          /\ UNCHANGED <<variable_scopes, defined_functions, outcome, popped,
                         input, written>>

----------------------------------------------------------------------------
\* Parser.parse_block

\* block_node = Node("Block"); self.eat("BLOCK_START");
\* self.variable_scopes.append({})
BlockStart ==
  /\ At("block")
  /\ Eat("BLOCK_START",
         Goto([Top EXCEPT !.pc = "block_loop", !.node = Node("Block", "")]),
         Append(variable_scopes, EmptyScope), NoNode)

\* while self.current_token() and self.current_token().type != "BLOCK_END"
BlockLoop ==
  /\ At("block_loop")
  /\ tok # NoToken /\ tok.type # "BLOCK_END"
  /\ stack' = Call(Top, "statement")
  /\ Stay
  /\ returned' = NoNode
  /\ UNCHANGED <<variable_scopes, defined_functions, outcome, popped, input,
                 written>>

\* BlockEnd as it would be without self.variable_scopes.pop().
BlockEndNoPop ==
  /\ At("block_loop")
  /\ ~(tok # NoToken /\ tok.type # "BLOCK_END")
  /\ Eat("BLOCK_END", Deliver(Stamp(Top.node)), variable_scopes,
         Stamp(Top.node))

\* self.variable_scopes.pop(); self.eat("BLOCK_END"); return block_node
BlockEnd ==
  /\ At("block_loop")
  /\ ~(tok # NoToken /\ tok.type # "BLOCK_END")
  /\ variable_scopes' = Pop(variable_scopes)
  /\ popped' = variable_scopes[Len(variable_scopes)]
  /\ IF Matches("BLOCK_END")
     THEN /\ Advance(BlockDelta("BLOCK_END"))
          /\ stack' = Deliver(Stamp(Top.node))
          /\ returned' = Stamp(Top.node)
          /\ UNCHANGED <<outcome, defined_functions, input, written>>
     ELSE /\ outcome' = UnexpectedToken("BLOCK_END")
          /\ Stay
          /\ UNCHANGED <<stack, returned, defined_functions, input, written>>

----------------------------------------------------------------------------
\* Parser.parse_function_definition

FunctionKeyword ==
  /\ At("function")
  /\ Eat("FUNCTION_DEFINITION", Goto([Top EXCEPT !.pc = "function_type"]),
         variable_scopes, NoNode)

FunctionType ==
  /\ At("function_type")
  /\ Eat("TYPE", Goto([Top EXCEPT !.pc = "function_name", !.ty = tok.value]),
         variable_scopes, NoNode)

\* FunctionName as it would be without the test of defined_functions.
FunctionNameUnchecked ==
  /\ At("function_name")
  /\ IF ~Matches("IDENTIFIER")
     THEN RaiseHere(UnexpectedToken("IDENTIFIER"))
     ELSE /\ Advance(0)
          /\ defined_functions' = defined_functions \cup {tok.value}
          /\ stack' =
               Goto([Top EXCEPT !.pc = "function_paren", !.id = tok.value])
          /\ returned' = NoNode
          /\ UNCHANGED <<variable_scopes, outcome, popped, input, written>>

\* func_name = self.eat("IDENTIFIER").value, the test of defined_functions
\* and the registration.
FunctionName ==
  /\ At("function_name")
  /\ IF ~Matches("IDENTIFIER")
     THEN RaiseHere(UnexpectedToken("IDENTIFIER"))
     ELSE IF tok.value \in defined_functions
     THEN RaiseAfterEat(FunctionAlreadyDefined(tok.value))
     ELSE /\ Advance(0)
          /\ defined_functions' = defined_functions \cup {tok.value}
          /\ stack' =
               Goto([Top EXCEPT !.pc = "function_paren", !.id = tok.value])
          /\ returned' = NoNode
          /\ UNCHANGED <<variable_scopes, outcome, popped, input, written>>

\* FunctionParen as it would be without self.variable_scopes.append({}).
FunctionParenNoPush ==
  /\ At("function_paren")
  /\ Eat("LEFT_PAREN",
         Goto([Top EXCEPT !.pc = "function_params",
                          !.node = Node("Parameters", "")]),
         variable_scopes, NoNode)

\* self.eat("LEFT_PAREN"); params_node = Node("Parameters");
\* self.variable_scopes.append({})
FunctionParen ==
  /\ At("function_paren")
  /\ Eat("LEFT_PAREN",
         Goto([Top EXCEPT !.pc = "function_params",
                          !.node = Node("Parameters", "")]),
         Append(variable_scopes, EmptyScope), NoNode)

\* while self.current_token() and self.current_token().type != "RIGHT_PAREN"
FunctionParamType ==
  /\ At("function_params")
  /\ tok # NoToken /\ tok.type # "RIGHT_PAREN"
  /\ Eat("TYPE",
         Goto([Top EXCEPT !.pc = "function_param_name", !.pty = tok.value]),
         variable_scopes, NoNode)

\* FunctionParamName as it would be if the test looked the name up in every
\* frame (is_variable_defined) instead of the parameter frame.
FunctionParamNameAnyFrame ==
  /\ At("function_param_name")
  /\ IF ~Matches("IDENTIFIER")
     THEN RaiseHere(UnexpectedToken("IDENTIFIER"))
     ELSE IF is_variable_defined(variable_scopes, tok.value)
     THEN RaiseAfterEat(ParameterAlreadyDefined(tok.value))
     ELSE /\ Advance(0)
          /\ variable_scopes' = Bind(variable_scopes, tok.value, Top.pty)
          /\ stack' =
               Goto([Top EXCEPT
                       !.pc = "function_params", !.pty = "",
                       !.node =
                         add_child(@, Node("Parameter",
                                           Top.pty \o " " \o tok.value))])
          /\ returned' = NoNode
          /\ UNCHANGED <<defined_functions, outcome, popped, input, written>>

\* param_name = self.eat("IDENTIFIER").value, the test of the innermost
\* frame, the binding and the Parameter node
FunctionParamName ==
  /\ At("function_param_name")
  /\ IF ~Matches("IDENTIFIER")
     THEN RaiseHere(UnexpectedToken("IDENTIFIER"))
     ELSE IF InInnermost(variable_scopes, tok.value)
     THEN RaiseAfterEat(ParameterAlreadyDefined(tok.value))
     ELSE /\ Advance(0)
          /\ variable_scopes' = Bind(variable_scopes, tok.value, Top.pty)
          /\ stack' =
               Goto([Top EXCEPT
                       !.pc = "function_params", !.pty = "",
                       !.node =
                         add_child(@, Node("Parameter",
                                           Top.pty \o " " \o tok.value))])
          /\ returned' = NoNode
          /\ UNCHANGED <<defined_functions, outcome, popped, input, written>>

FunctionParamsEnd ==
  /\ At("function_params")
  /\ ~(tok # NoToken /\ tok.type # "RIGHT_PAREN")
  /\ Eat("RIGHT_PAREN", Goto([Top EXCEPT !.pc = "function_body"]),
         variable_scopes, NoNode)

\* self.eat("START_STATEMENT"), func_node with params_node as its first
\* child, and the call of parse_block
FunctionBody ==
  /\ At("function_body")
  /\ Eat("START_STATEMENT",
         Call([Top EXCEPT
                 !.pc = "function_return",
                 !.node = add_child(Node("FunctionDefinition",
                                         Top.id \o ": " \o Top.ty), @)],
              "block"),
         variable_scopes, NoNode)

\* self.variable_scopes.pop(); return func_node
FunctionReturn ==
  /\ At("function_return")
  /\ variable_scopes' = Pop(variable_scopes)
  /\ stack' = Deliver(Stamp(Top.node))
  /\ returned' = Stamp(Top.node)
  /\ Stay
  /\ UNCHANGED <<defined_functions, outcome, popped, input, written>>

----------------------------------------------------------------------------
\* Parser.parse_variable_definition

VariableKeyword ==
  /\ At("variable")
  /\ Eat("VARIABLE_DEFINITION", Goto([Top EXCEPT !.pc = "variable_type"]),
         variable_scopes, NoNode)

VariableType ==
  /\ At("variable_type")
  /\ Eat("TYPE", Goto([Top EXCEPT !.pc = "variable_name", !.ty = tok.value]),
         variable_scopes, NoNode)

\* VariableName as it would be if the test looked the name up in every frame
\* (is_variable_defined) instead of the innermost one.
VariableNameAnyFrame ==
  /\ At("variable_name")
  /\ IF ~Matches("IDENTIFIER")
     THEN RaiseHere(UnexpectedToken("IDENTIFIER"))
     ELSE IF is_variable_defined(variable_scopes, tok.value)
     THEN RaiseAfterEat(VariableAlreadyDefined(tok.value))
     ELSE /\ Advance(0)
          /\ variable_scopes' = Bind(variable_scopes, tok.value, Top.ty)
          /\ stack' =
               Goto([Top EXCEPT
                       !.pc = "variable_init", !.id = tok.value,
                       !.node = Node("VariableDefinition",
                                     Top.ty \o " " \o tok.value)])
          /\ returned' = NoNode
          /\ UNCHANGED <<defined_functions, outcome, popped, input, written>>

\* var_name = self.eat("IDENTIFIER").value, the test of the innermost
\* frame, the binding and var_node.
VariableName ==
  /\ At("variable_name")
  /\ IF ~Matches("IDENTIFIER")
     THEN RaiseHere(UnexpectedToken("IDENTIFIER"))
     ELSE IF InInnermost(variable_scopes, tok.value)
     THEN RaiseAfterEat(VariableAlreadyDefined(tok.value))
     ELSE /\ Advance(0)
          /\ variable_scopes' = Bind(variable_scopes, tok.value, Top.ty)
          /\ stack' =
               Goto([Top EXCEPT
                       !.pc = "variable_init", !.id = tok.value,
                       !.node = Node("VariableDefinition",
                                     Top.ty \o " " \o tok.value)])
          /\ returned' = NoNode
          /\ UNCHANGED <<defined_functions, outcome, popped, input, written>>

\* if the current token is ASSIGN: self.eat("ASSIGN"), parse_expression()
VariableAssign ==
  /\ At("variable_init")
  /\ Matches("ASSIGN")
  /\ Eat("ASSIGN", Call([Top EXCEPT !.pc = "variable_end"], "expression"),
         variable_scopes, NoNode)

\* self.eat("COMMAND_END"); return var_node
VariableEnd ==
  /\ outcome.status = "running" /\ Len(stack) > 0
  /\ Top.pc \in {"variable_init", "variable_end"}
  /\ Top.pc = "variable_init" => ~Matches("ASSIGN")
  /\ Eat("COMMAND_END", Deliver(Stamp(Top.node)), variable_scopes,
         Stamp(Top.node))

----------------------------------------------------------------------------
\* Parser.parse_if_conditional

IfKeyword ==
  /\ At("if")
  /\ Eat("IF_CONDITIONAL", Goto([Top EXCEPT !.pc = "if_paren"]),
         variable_scopes, NoNode)

\* self.eat("LEFT_PAREN"); condition = self.parse_expression()
IfParen ==
  /\ At("if_paren")
  /\ Eat("LEFT_PAREN", Call([Top EXCEPT !.pc = "if_close"], "expression"),
         variable_scopes, NoNode)

IfClose ==
  /\ At("if_close")
  /\ Eat("RIGHT_PAREN", Goto([Top EXCEPT !.pc = "if_then"]),
         variable_scopes, NoNode)

\* self.eat("START_STATEMENT"), if_node and the call of parse_block
IfThen ==
  /\ At("if_then")
  /\ Eat("START_STATEMENT",
         Call([Top EXCEPT
                 !.pc = "if_else",
                 !.node = Node("IfConditional", Top.node.value)],
              "block"),
         variable_scopes, NoNode)

\* the ELSE_CONDITIONAL branch: eat it, else_node and the call of
\* parse_block
IfElse ==
  /\ At("if_else")
  /\ Matches("ELSE_CONDITIONAL")
  /\ Eat("ELSE_CONDITIONAL",
         Call([Top EXCEPT
                 !.pc = "if_return",
                 !.kept = <<Node("ElseConditional", "")>>],
              "block"),
         variable_scopes, NoNode)

\* return if_node
IfReturn ==
  /\ outcome.status = "running" /\ Len(stack) > 0
  /\ Top.pc \in {"if_else", "if_return"}
  /\ Top.pc = "if_else" => ~Matches("ELSE_CONDITIONAL")
  /\ stack' = Deliver(Stamp(Top.node))
  /\ returned' = Stamp(Top.node)
  /\ Stay
  /\ UNCHANGED <<variable_scopes, defined_functions, outcome, popped, input,
                 written>>

----------------------------------------------------------------------------
\* Parser.parse_for_loop

ForKeyword ==
  /\ At("for")
  /\ Eat("FOR_LOOP", Goto([Top EXCEPT !.pc = "for_paren"]),
         variable_scopes, NoNode)

ForParen ==
  /\ At("for_paren")
  /\ Eat("LEFT_PAREN", Goto([Top EXCEPT !.pc = "for_init"]),
         variable_scopes, NoNode)

\* ForInit as it would be if the offending token were consumed before the
\* raise.
ForInitConsuming ==
  /\ At("for_init")
  /\ IF tok = NoToken
     THEN RaiseHere(NoneHasNoType)
     ELSE IF tok.type = "VARIABLE_DEFINITION"
     THEN /\ stack' = Call([Top EXCEPT !.pc = "for_condition"], "variable")
          /\ Stay
          /\ returned' = NoNode
          /\ UNCHANGED <<variable_scopes, defined_functions, outcome, popped,
                         input, written>>
     ELSE RaiseAfterEat(ExpectedVariableDefinition)

\* if self.current_token().type == "VARIABLE_DEFINITION": ... else: raise
ForInit ==
  /\ At("for_init")
  /\ IF tok = NoToken
     THEN RaiseHere(NoneHasNoType)
     ELSE IF tok.type = "VARIABLE_DEFINITION"
     THEN /\ stack' = Call([Top EXCEPT !.pc = "for_condition"], "variable")
          /\ Stay
          /\ returned' = NoNode
          /\ UNCHANGED <<variable_scopes, defined_functions, outcome, popped,
                         input, written>>
     ELSE RaiseHere(ExpectedVariableDefinition)

\* ClauseToken as it would be without the identifier test.
ClauseTokenUnchecked ==
  /\ Advance(0)
  /\ stack' = Goto([Top EXCEPT !.text = Flatten(@, tok.value)])
  /\ returned' = NoNode
  /\ UNCHANGED <<popped, variable_scopes, defined_functions, outcome, input,
                 written>>

\* One round of a clause loop of parse_for_loop: the identifier test, then
\* value += token.value + " " and self.current += 1.
ClauseToken ==
  IF tok.type = "IDENTIFIER" /\ ~is_variable_defined(variable_scopes, tok.value)
  THEN RaiseHere(VariableNotDefined(tok.value))
  ELSE /\ Advance(0)
       /\ stack' = Goto([Top EXCEPT !.text = Flatten(@, tok.value)])
       /\ returned' = NoNode
       /\ UNCHANGED <<popped, variable_scopes, defined_functions, outcome,
                      input, written>>

\* while self.current_token() and self.current_token().type != "COMMAND_END"
ForCondition ==
  /\ At("for_condition")
  /\ tok # NoToken /\ tok.type # "COMMAND_END"
  /\ ClauseToken

\* condition_expr.value = condition_expr.value.strip();
\* self.eat("COMMAND_END")
ForConditionEnd ==
  /\ At("for_condition")
  /\ ~(tok # NoToken /\ tok.type # "COMMAND_END")
  /\ Eat("COMMAND_END",
         Goto([Top EXCEPT
                 !.pc = "for_increment",
                 !.kept = Append(@, Node("Condition", Stripped(Top.text))),
                 !.text = <<>>]),
         variable_scopes, NoNode)

\* while self.current_token() and self.current_token().type != "RIGHT_PAREN"
ForIncrement ==
  /\ At("for_increment")
  /\ tok # NoToken /\ tok.type # "RIGHT_PAREN"
  /\ ClauseToken

\* increment_expr.value = increment_expr.value.strip();
\* self.eat("RIGHT_PAREN")
ForIncrementEnd ==
  /\ At("for_increment")
  /\ ~(tok # NoToken /\ tok.type # "RIGHT_PAREN")
  /\ Eat("RIGHT_PAREN",
         Goto([Top EXCEPT
                 !.pc = "for_body",
                 !.kept = Append(@, Node("Increment", Stripped(Top.text))),
                 !.text = <<>>]),
         variable_scopes, NoNode)

\* self.eat("START_STATEMENT") and the call of parse_block
ForBody ==
  /\ At("for_body")
  /\ Eat("START_STATEMENT", Call([Top EXCEPT !.pc = "for_return"], "block"),
         variable_scopes, NoNode)

\* for_node and its four children
for_node ==
  add_child(add_child(add_child(add_child(Node("ForLoop", ""), Top.kept[1]),
                                Top.kept[2]),
                      Top.kept[3]),
            Top.kept[4])

\* ForReturn as it would be if the loop had a scope frame of its own to
\* pop.
ForReturnPopping ==
  /\ At("for_return")
  /\ stack' = Deliver(Stamp(for_node))
  /\ returned' = Stamp(for_node)
  /\ variable_scopes' = Pop(variable_scopes)
  /\ Stay
  /\ UNCHANGED <<defined_functions, outcome, popped, input, written>>

\* return for_node
ForReturn ==
  /\ At("for_return")
  /\ stack' = Deliver(Stamp(for_node))
  /\ returned' = Stamp(for_node)
  /\ Stay
  /\ UNCHANGED <<variable_scopes, defined_functions, outcome, popped, input,
                 written>>

----------------------------------------------------------------------------
\* Parser.parse_expression

ExpressionEnd == {"COMMAND_END", "RIGHT_PAREN", "BLOCK_END"}

\* ExpressionToken as it would be with the identifier test of the for-loop
\* clauses.
ExpressionTokenChecked ==
  /\ At("expression")
  /\ tok # NoToken /\ tok.type \notin ExpressionEnd
  /\ IF tok.type = "IDENTIFIER"
        /\ ~is_variable_defined(variable_scopes, tok.value)
     THEN RaiseHere(VariableNotDefined(tok.value))
     ELSE /\ Advance(0)
          /\ stack' = Goto([Top EXCEPT !.text = Flatten(@, tok.value)])
          /\ returned' = NoNode
          /\ UNCHANGED <<variable_scopes, defined_functions, outcome, popped,
                         input, written>>

\* One round of the flattening loop: expr_value += token.value + " " and
\* self.current += 1
ExpressionToken ==
  /\ At("expression")
  /\ tok # NoToken /\ tok.type \notin ExpressionEnd
  /\ Advance(0)
  /\ stack' = Goto([Top EXCEPT !.text = Flatten(@, tok.value)])
  /\ returned' = NoNode
  /\ UNCHANGED <<variable_scopes, defined_functions, outcome, popped, input,
                 written>>

\* expr_node.value = expr_value.strip(); return expr_node
ExpressionReturn ==
  /\ At("expression")
  /\ ~(tok # NoToken /\ tok.type \notin ExpressionEnd)
  /\ stack' = Deliver(Stamp(Node("Expression", Stripped(Top.text))))
  /\ returned' = Stamp(Node("Expression", Stripped(Top.text)))
  /\ Stay
  /\ UNCHANGED <<variable_scopes, defined_functions, outcome, popped, input,
                 written>>

----------------------------------------------------------------------------
\* Parser.parse_generic_statement

\* the RETURN branch: self.eat("RETURN")
GenericReturn ==
  /\ At("generic")
  /\ Matches("RETURN")
  /\ Eat("RETURN", Goto([Top EXCEPT !.pc = "return_value"]),
         variable_scopes, NoNode)

\* return_value = self.eat("IDENTIFIER").value and the test of
\* is_variable_defined
ReturnValue ==
  /\ At("return_value")
  /\ IF ~Matches("IDENTIFIER")
     THEN RaiseHere(UnexpectedToken("IDENTIFIER"))
     ELSE IF ~is_variable_defined(variable_scopes, tok.value)
     THEN RaiseAfterEat(VariableNotDefined(tok.value))
     ELSE /\ Advance(0)
          /\ stack' = Goto([Top EXCEPT !.pc = "return_end", !.id = tok.value])
          /\ returned' = NoNode
          /\ UNCHANGED <<variable_scopes, defined_functions, outcome, popped,
                         input, written>>

\* self.eat("COMMAND_END"); return Node("Return", return_value)
ReturnEnd ==
  /\ At("return_end")
  /\ Eat("COMMAND_END", Deliver(Stamp(Node("Return", Top.id))),
         variable_scopes, Stamp(Node("Return", Top.id)))

\* GenericStatement as it would be without self.current += 1.
GenericStatementNoAdvance ==
  /\ At("generic")
  /\ ~Matches("RETURN")
  /\ IF tok = NoToken
     THEN RaiseHere(UnexpectedEndOfInput)
     ELSE /\ Stay
          /\ stack' = Deliver(Stamp(Node("Statement", tok.value)))
          /\ returned' = Stamp(Node("Statement", tok.value))
          /\ UNCHANGED <<variable_scopes, defined_functions, outcome, popped,
                         input, written>>

\* the missing-token test and the fallback: self.current += 1 and a
\* Statement node
GenericStatement ==
  /\ At("generic")
  /\ ~Matches("RETURN")
  /\ IF tok = NoToken
     THEN RaiseHere(UnexpectedEndOfInput)
     ELSE /\ Advance(0)
          /\ stack' = Deliver(Stamp(Node("Statement", tok.value)))
          /\ returned' = Stamp(Node("Statement", tok.value))
          /\ UNCHANGED <<variable_scopes, defined_functions, outcome, popped,
                         input, written>>

----------------------------------------------------------------------------
\* The driver, after parse() has returned:
\* file.write(syntax_tree.print_tree())
WriteTree ==
  /\ outcome.status = "returned"
  /\ written = <<>>
  /\ written' = print_tree(returned, 0)
  /\ UNCHANGED <<tok, current, block_counter, defined_functions,
                 variable_scopes, stack, outcome, returned, popped, input>>

----------------------------------------------------------------------------

Next ==
  \/ ParseStart \/ ParseLoop \/ ParseEnd
  \/ Dispatch
  \/ BlockStart \/ BlockLoop \/ BlockEnd
  \/ FunctionKeyword \/ FunctionType \/ FunctionName \/ FunctionParen
  \/ FunctionParamType \/ FunctionParamName \/ FunctionParamsEnd
  \/ FunctionBody \/ FunctionReturn
  \/ VariableKeyword \/ VariableType \/ VariableName \/ VariableAssign
  \/ VariableEnd
  \/ IfKeyword \/ IfParen \/ IfClose \/ IfThen \/ IfElse \/ IfReturn
  \/ ForKeyword \/ ForParen \/ ForInit \/ ForCondition \/ ForConditionEnd
  \/ ForIncrement \/ ForIncrementEnd \/ ForBody \/ ForReturn
  \/ ExpressionToken \/ ExpressionReturn
  \/ GenericReturn \/ ReturnValue \/ ReturnEnd \/ GenericStatement
  \/ WriteTree

Spec == Init /\ [][Next]_vars

----------------------------------------------------------------------------
\* Token lists given in advance: small programs of every production.

Kw(kind) == Token(kind, kind)
Id(name) == Token("IDENTIFIER", name)
TypeInt == Token("TYPE", "int")

\* Every run of at most MaxWords of the given tokens.
Runs(words) == UNION {[1..k -> words] : k \in 0..MaxWords}

\* Tokens of an initializer or an if-condition, and of a for-loop clause.
ExpressionWords == {Id("x"), Id("y"), Id("1"), Token("OTHER", "+")}
ClauseWords == {Id("x"), Id("y"), Token("OTHER", "<"), Token("OTHER", "1")}

VarDef(n) == <<Kw("VARIABLE_DEFINITION"), TypeInt, Id(n), Kw("COMMAND_END")>>
VarInit(n, e) ==
  <<Kw("VARIABLE_DEFINITION"), TypeInt, Id(n), Kw("ASSIGN")>> \o e
    \o <<Kw("COMMAND_END")>>
ReturnOf(n) == <<Kw("RETURN"), Id(n), Kw("COMMAND_END")>>
BlockOf(b) == <<Kw("BLOCK_START")>> \o b \o <<Kw("BLOCK_END")>>
IfOf(e, b) ==
  <<Kw("IF_CONDITIONAL"), Kw("LEFT_PAREN")>> \o e
    \o <<Kw("RIGHT_PAREN"), Kw("START_STATEMENT")>> \o BlockOf(b)
IfElseOf(e, b, c) == IfOf(e, b) \o <<Kw("ELSE_CONDITIONAL")>> \o BlockOf(c)
ForOf(init, c, i, b) ==
  <<Kw("FOR_LOOP"), Kw("LEFT_PAREN")>> \o init \o c \o <<Kw("COMMAND_END")>>
    \o i \o <<Kw("RIGHT_PAREN"), Kw("START_STATEMENT")>> \o BlockOf(b)
FunOf(f, ps, b) ==
  <<Kw("FUNCTION_DEFINITION"), TypeInt, Id(f), Kw("LEFT_PAREN")>> \o ps
    \o <<Kw("RIGHT_PAREN"), Kw("START_STATEMENT")>> \o BlockOf(b)

\* Statement lists without a nested construct.
Bodies ==
  {<<>>, VarDef("x"), VarDef("y"), ReturnOf("x"), <<Kw("OTHER")>>,
   VarDef("x") \o ReturnOf("x"), <<Kw("OTHER")>> \o VarDef("x")}

ParameterLists ==
  {<<>>, <<TypeInt, Id("x")>>, <<TypeInt, Id("x"), TypeInt, Id("y")>>,
   <<TypeInt, Id("x"), TypeInt, Id("x")>>}

\* One construct each.
Constructs ==
  {VarInit(n, e) : n \in {"x"}, e \in Runs(ExpressionWords)}
    \cup {BlockOf(b) : b \in Bodies}
    \cup {BlockOf(BlockOf(b)) : b \in Bodies}
    \cup {IfOf(e, b) : e \in {<<>>, <<Id("y")>>}, b \in Bodies}
    \cup {IfElseOf(<<Id("x"), Token("OTHER", "<"), Id("1")>>, b, c) :
            b \in Bodies, c \in {<<>>, ReturnOf("x")}}
    \cup {ForOf(init, c, i, b) :
            init \in {VarDef("x"), VarInit("x", <<Id("1")>>)},
            c \in Runs(ClauseWords),
            i \in {<<>>, <<Id("x"), Token("OTHER", "++")>>},
            b \in {<<>>, ReturnOf("x"), VarDef("x")}}
    \cup {FunOf(f, ps, b) :
            f \in {"x"}, ps \in ParameterLists, b \in Bodies}

\* A construct on its own, between statements, in a block, and in the body
\* of a function with a parameter.
Programs ==
  {<<Kw("PROGRAM_START")>> \o c \o <<Kw("PROGRAM_END")>> : c \in Constructs}
    \cup {<<Kw("PROGRAM_START")>> \o VarDef("x") \o c \o ReturnOf("x")
            \o <<Kw("PROGRAM_END")>> : c \in Constructs}
    \cup {<<Kw("PROGRAM_START")>> \o c \o ReturnOf(n)
            \o <<Kw("PROGRAM_END")>> : c \in Constructs, n \in Names}
    \cup {<<Kw("PROGRAM_START")>> \o BlockOf(c \o c)
            \o <<Kw("PROGRAM_END")>> : c \in Constructs}
    \cup {<<Kw("PROGRAM_START")>> \o FunOf("y", <<TypeInt, Id("y")>>, c)
            \o <<Kw("PROGRAM_END")>> : c \in Constructs}

\* The tokens up to the place where parse_expression is called.
ExpressionPrefixes ==
  {<<Kw("PROGRAM_START"), Kw("VARIABLE_DEFINITION"), TypeInt, Id("x"),
     Kw("ASSIGN")>>,
   <<Kw("PROGRAM_START"), Kw("IF_CONDITIONAL"), Kw("LEFT_PAREN")>>}

\* Parser(tokens), with the tree built, for a list of Programs and for
\* every list that goes on after one of ExpressionPrefixes with at most
\* MaxWords + 1 tokens of the alphabet.
InitTree ==
  \/ \E p \in Programs : Start([tokens |-> p, free |-> 0, track |-> TRUE])
  \/ \E p \in ExpressionPrefixes :
       Start([tokens |-> p, free |-> MaxWords + 1, track |-> TRUE])

TreeSpec == InitTree /\ [][Next]_vars

\* Every token list of at most LiveLen tokens over the alphabet; the
\* interpreter runs the parser's next statement as long as there is one.
InitLive == Start([tokens |-> <<>>, free |-> LiveLen, track |-> FALSE])

LiveSpec == InitLive /\ [][Next]_vars /\ WF_vars(Next)

----------------------------------------------------------------------------
\* Properties.

Innermost == variable_scopes[Len(variable_scopes)]
\* name is a key of at least one frame of scopes
BoundIn(scopes, name) == \E i \in 1..Len(scopes) : name \in DOMAIN scopes[i]
\* some frame below the top of the call stack is at pc
Inside(pc) == \E i \in 1..(Len(stack) - 1) : stack[i].pc = pc

\* C1: whenever parse() returns the Program node, block_counter is 0.
C1_ReturnedMeansCounterZero ==
  outcome.status = "returned" => block_counter = 0

\* A successful parse during which a frame with a binding was popped, so
\* that BLOCK_START and BLOCK_END were eaten.
C1_Witness ==
  /\ outcome.status = "returned"
  /\ returned = Node("Program", "")
  /\ DOMAIN popped # {}

\* C2: when parse_function_definition has read a name that is already in
\* defined_functions, the run ends with "Function '<name>' is already
\* defined" whatever the nesting; a raised error stays (no tree is returned
\* any more); defined_functions never loses a name.
C2_FunctionNamesGloballyUnique ==
  [][/\ (At("function_name") /\ Matches("IDENTIFIER")
           /\ tok.value \in defined_functions)
        => outcome' = FunctionAlreadyDefined(tok.value)
     /\ outcome.status = "raised" => outcome' = outcome
     /\ defined_functions \subseteq defined_functions']_vars

\* The second definition of a name is rejected inside the body of another
\* function, whose definition registered the name.
C2_Witness ==
  /\ outcome.status = "raised"
  /\ outcome.msg = "Semantic error: Function is already defined."
  /\ outcome.subject \in defined_functions
  /\ Inside("function_return")

\* C3: parse_variable_definition of name n raises "already defined in the
\* current scope" exactly when n is a key of the innermost frame; otherwise
\* the definition is accepted and binds n in the innermost frame, also when
\* an outer frame binds n.
C3_RejectedIffInInnermostFrame ==
  [][(At("variable_name") /\ Matches("IDENTIFIER"))
       => IF tok.value \in DOMAIN Innermost
          THEN outcome' = VariableAlreadyDefined(tok.value)
          ELSE /\ outcome' = Running
               /\ variable_scopes' =
                    [variable_scopes EXCEPT ![Len(variable_scopes)] =
                       [n \in DOMAIN Innermost \cup {tok.value} |->
                          IF n = tok.value THEN Top.ty ELSE Innermost[n]]]]_vars

\* A name bound in the outermost frame was defined again in a nested block
\* (accepted) and then once more in that same block (rejected).
C3_Witness ==
  /\ outcome.status = "raised"
  /\ outcome.msg =
       "Semantic error: Variable is already defined in the current scope."
  /\ Len(variable_scopes) >= 2
  /\ outcome.subject \in DOMAIN variable_scopes[1]
  /\ outcome.subject \in DOMAIN Innermost

\* C4: when parse_block consumes its BLOCK_END, every identifier bound only
\* in that block's frame resolves no longer; and RETURN of an identifier that
\* resolves in no frame raises "Variable '<id>' is not defined".
C4_ScopeExitErasesVisibility ==
  [][/\ (At("block_loop") /\ Matches("BLOCK_END"))
        => \A n \in DOMAIN Innermost :
             ~BoundIn(Pop(variable_scopes), n) => ~BoundIn(variable_scopes', n)
     /\ (At("return_value") /\ Matches("IDENTIFIER")
           /\ ~BoundIn(variable_scopes, tok.value))
        => outcome' = VariableNotDefined(tok.value)]_vars

\* RETURN of an identifier that the block closed last had bound, in the
\* enclosing scope or in a sibling block, is rejected.
C4_Witness ==
  /\ outcome.status = "raised"
  /\ outcome.msg = "Semantic error: Variable is not defined."
  /\ Top.pc = "return_value"
  /\ outcome.subject \in DOMAIN popped
  /\ ~Inside("function_return")

\* C5: a run ends by returning the Program root, with a Syntax error or with
\* a Semantic error and in no other way, and nothing changes after an error.
C5_ThreeOutcomesFailFast ==
  /\ [](outcome.status = "raised"
          => IsSyntaxError(outcome) \/ IsSemanticError(outcome))
  /\ [][outcome.status = "raised" => UNCHANGED vars]_vars

\* C6: block_counter is the number of BLOCK_START tokens the cursor has
\* moved past minus the number of BLOCK_END tokens it has moved past.  Both
\* sides are 0 initially, so this holds in every reachable state exactly
\* when every step changes block_counter by the delimiter it moves past.
C6_CounterTracksEveryDelimiter ==
  [][block_counter' - block_counter =
       (IF current' = current + 1 /\ tok.type = "BLOCK_START" THEN 1 ELSE 0)
       - (IF current' = current + 1 /\ tok.type = "BLOCK_END" THEN 1 ELSE 0)]_vars

\* C7: when parse() returns the Program root, the cursor is at the end of
\* the token list (no token is left unread).
C7_ReturnedMeansAllTokensRead ==
  outcome.status = "returned" => tok = NoToken

\* C8: at statement position RETURN IDENTIFIER(id) COMMAND_END yields
\* Return(id) exactly when at least one frame of the scope stack binds id,
\* and otherwise raises "Variable '<id>' is not defined"; defined_functions
\* plays no part.
C8_ReturnResolution ==
  /\ (outcome.status = "running" /\ returned.type = "Return")
       => BoundIn(variable_scopes, returned.value)
  /\ (outcome.status = "running" /\ Len(stack) > 0 /\ Top.pc = "return_end")
       => BoundIn(variable_scopes, Top.id)
  /\ (outcome.status = "raised" /\ Top.pc = "return_value"
        /\ outcome.msg = "Semantic error: Variable is not defined.")
       => ~BoundIn(variable_scopes, outcome.subject)
  /\ (outcome.status = "raised" /\ Top.pc = "return_value"
        /\ outcome.msg # "Semantic error: Variable is not defined.")
       => outcome = UnexpectedToken("IDENTIFIER") /\ ~Matches("IDENTIFIER")
  /\ (outcome.status = "raised" /\ Top.pc = "return_end")
       => outcome = UnexpectedToken("COMMAND_END") /\ ~Matches("COMMAND_END")

\* A Return node for a name that only an outer frame binds has just been
\* returned inside a nested block.
C8_Witness ==
  /\ outcome.status = "running"
  /\ returned.type = "Return"
  /\ Len(variable_scopes) >= 2
  /\ returned.value \in DOMAIN variable_scopes[1]
  /\ returned.value \notin DOMAIN Innermost

\* C9: after FOR_LOOP LEFT_PAREN, a current token of another kind than
\* VARIABLE_DEFINITION makes parse_for_loop raise the Syntax error "Expected
\* variable definition" with the cursor still on that token and the scope
\* stack, the function set and block_counter as they were.
C9_ForInitializerMustBeDefinition ==
  [][(At("for_init") /\ tok # NoToken /\ tok.type # "VARIABLE_DEFINITION")
       => /\ outcome' = ExpectedVariableDefinition
          /\ IsSyntaxError(outcome')
          /\ UNCHANGED <<current, tok, variable_scopes, defined_functions,
                         block_counter, stack>>]_vars

\* The error was raised at a token that is there and is no definition.
C9_Witness ==
  /\ outcome = ExpectedVariableDefinition
  /\ Top.pc = "for_init"
  /\ tok # NoToken
  /\ tok.type # "VARIABLE_DEFINITION"

\* The current token of a round of the condition loop or of the increment
\* loop of parse_for_loop.
InForClause ==
  \/ At("for_condition") /\ tok # NoToken /\ tok.type # "COMMAND_END"
  \/ At("for_increment") /\ tok # NoToken /\ tok.type # "RIGHT_PAREN"

\* C10: in the condition and increment loops of parse_for_loop an
\* IDENTIFIER token bound in no frame raises "Variable '<id>' is not
\* defined" with the cursor on it, every other token is passed over without
\* an error, and the variable of the loop's initializer is bound in the
\* innermost frame when the condition starts.
C10_ForClauseIdentifiersChecked ==
  /\ [][InForClause
          => IF tok.type = "IDENTIFIER" /\ ~BoundIn(variable_scopes, tok.value)
             THEN outcome' = VariableNotDefined(tok.value) /\ current' = current
             ELSE outcome' = Running /\ current' = current + 1]_vars
  /\ []((At("for_condition") /\ returned.type = "VariableDefinition")
          => \E n \in DOMAIN Innermost :
               returned.value \in {Innermost[n] \o " " \o n,
                                   Innermost[n] \o " " \o n \o " = " \o FlatText})

\* The increment loop stopped on an identifier that no frame binds, while
\* the innermost frame binds the variable of the loop's initializer.
C10_Witness ==
  /\ outcome.status = "raised"
  /\ outcome.msg = "Semantic error: Variable is not defined."
  /\ Top.pc = "for_increment"
  /\ tok = Token("IDENTIFIER", outcome.subject)
  /\ DOMAIN Innermost # {}

\* The frames of the call stack that own a frame of the scope stack: a
\* block between its push and its pop, a function definition between the
\* push and the pop of its parameter frame.
OwnsScope(f) ==
  f.pc \in {"block_loop", "function_params", "function_param_name",
            "function_body", "function_return"}
\* The index of the scope frame that is innermost for the production at
\* stack[i] itself (not for the productions it has called).
ScopeIndex(i) == 1 + Cardinality({j \in 1..i : OwnsScope(stack[j])})
\* The for-loops on the call stack whose initializer has been parsed.
LoopsUnderWay ==
  {i \in 1..Len(stack) :
     /\ stack[i].pc \in {"for_condition", "for_increment", "for_body",
                         "for_return"}
     /\ stack[i].kept # <<>>}
\* The variable that the initializer of the for-loop of frame f defined
\* (the name in the text of init_node), where texts are not built.
LoopVariable(f) ==
  CHOOSE n \in Names :
    \E t \in Types :
      f.kept[1].value \in {t \o " " \o n, t \o " " \o n \o " = " \o FlatText}

\* C11: parse_for_loop pushes and pops no scope frame of its own, so the
\* variable of its initializer is bound in the frame that was innermost
\* when the loop started: it is bound there all through the clauses and
\* the body block (which has a frame of its own on top), it is still bound
\* in that frame, innermost again, when the loop returns after its body's
\* BLOCK_END, and from then on a definition of the same name in that frame
\* (a statement or the initializer of another loop) is rejected as already
\* defined.
C11_LoopVariableInEnclosingFrame ==
  /\ [](outcome.status = "running"
          => \A i \in LoopsUnderWay :
               /\ ScopeIndex(i) <= Len(variable_scopes)
               /\ LoopVariable(stack[i])
                    \in DOMAIN variable_scopes[ScopeIndex(i)])
  /\ [][/\ (\E pc \in {"for", "for_paren", "for_init", "for_condition",
                       "for_increment", "for_body"} : At(pc))
             => Len(variable_scopes') = Len(variable_scopes)
        /\ At("for_return")
             => /\ variable_scopes' = variable_scopes
                /\ ScopeIndex(Len(stack)) = Len(variable_scopes)
                /\ is_variable_defined(variable_scopes', LoopVariable(Top))
        /\ (At("variable_name") /\ Matches("IDENTIFIER")
              /\ tok.value \in DOMAIN Innermost)
             => outcome' = VariableAlreadyDefined(tok.value)]_vars

\* The body block of a for-loop has been parsed up to and including its
\* BLOCK_END, the loop is about to return, and its variable resolves in the
\* frame that is innermost again.
C11_Witness ==
  /\ At("for_return")
  /\ Len(Top.kept) = 4
  /\ LoopVariable(Top) \in DOMAIN Innermost
  /\ ScopeIndex(Len(stack)) = Len(variable_scopes)

\* The function definitions on the call stack whose body is being parsed.
BodiesUnderWay == {i \in 1..Len(stack) : stack[i].pc = "function_return"}

\* C12: the parameters of a function definition are bound in a frame of
\* their own.  A parameter name is rejected with "Parameter '<name>' is
\* already defined" exactly when that frame binds it already, whatever the
\* outer frames bind, and is bound in that frame otherwise.  While the body
\* is parsed the parameter frame stays as it is and on the scope stack, so
\* that every parameter resolves there, and the body block's frame lies on
\* top of it, so that a definition of a parameter's name in the body goes
\* into another frame and is accepted.  The return pops the parameter
\* frame, which is innermost then.
C12_ParametersInOwnFrame ==
  /\ [][/\ (At("function_paren") /\ Matches("LEFT_PAREN"))
             => variable_scopes' = Append(variable_scopes, EmptyScope)
        /\ (At("function_param_name") /\ Matches("IDENTIFIER"))
             => IF tok.value \in DOMAIN Innermost
                THEN outcome' = ParameterAlreadyDefined(tok.value)
                ELSE /\ outcome' = Running
                     /\ variable_scopes' =
                          [variable_scopes EXCEPT ![Len(variable_scopes)] =
                             [n \in DOMAIN Innermost \cup {tok.value} |->
                                IF n = tok.value THEN Top.pty
                                ELSE Innermost[n]]]
        /\ \A i \in BodiesUnderWay :
             (outcome'.status = "running" /\ i <= Len(stack')
                /\ stack'[i].pc = "function_return")
               => /\ ScopeIndex(i) <= Len(variable_scopes')
                  /\ variable_scopes'[ScopeIndex(i)]
                       = variable_scopes[ScopeIndex(i)]
        /\ At("function_return")
             => /\ ScopeIndex(Len(stack)) = Len(variable_scopes)
                /\ variable_scopes' =
                     SubSeq(variable_scopes, 1, Len(variable_scopes) - 1)
                /\ outcome' = Running]_vars
  /\ [](outcome.status = "running"
          => \A i \in BodiesUnderWay :
               /\ ScopeIndex(i) <= Len(variable_scopes)
               /\ i < Len(stack)
                    => /\ stack[i + 1].pc \in {"block", "block_loop"}
                       /\ stack[i + 1].pc = "block_loop"
                            => Len(variable_scopes) > ScopeIndex(i))

\* In the body of a function a variable with the name of one of its
\* parameters has just been defined: the parameter frame and the innermost
\* frame, which lies above it, both bind the name.
C12_Witness ==
  /\ At("variable_init")
  /\ \E i \in BodiesUnderWay :
       /\ ScopeIndex(i) < Len(variable_scopes)
       /\ Top.id \in DOMAIN variable_scopes[ScopeIndex(i)]
       /\ Top.id \in DOMAIN Innermost

\* C13: parse_expression validates nothing.  Each of its steps leaves the
\* run without an error (so an IDENTIFIER that no frame binds is passed
\* over like any token) and the scope stack, the function set and
\* block_counter as they are; a current token of another kind than
\* COMMAND_END, RIGHT_PAREN and BLOCK_END is consumed, and at one of these
\* or at the end of the input parse_expression returns its Expression node
\* with the cursor where it is.
C13_ExpressionValidatesNothing ==
  [][At("expression")
       => /\ outcome' = Running
          /\ UNCHANGED <<variable_scopes, defined_functions, block_counter>>
          /\ IF tok # NoToken
                /\ tok.type \notin {"COMMAND_END", "RIGHT_PAREN", "BLOCK_END"}
             THEN /\ current' = current + 1
                  /\ Len(stack') = Len(stack)
                  /\ stack'[Len(stack')].pc = "expression"
             ELSE /\ UNCHANGED <<current, tok>>
                  /\ Len(stack') = Len(stack) - 1
                  /\ returned'.type = "Expression"]_vars

\* parse_expression has just returned from an if-condition that is one
\* IDENTIFIER which no frame binds, with the terminator still under the
\* cursor.
C13_Witness ==
  /\ At("if_close")
  /\ returned.type = "Expression"
  /\ returned.value \in Names
  /\ ~is_variable_defined(variable_scopes, returned.value)
  /\ current = 4
  /\ tok.type \in {"COMMAND_END", "RIGHT_PAREN", "BLOCK_END"}

\* The token at index i of the given list (counted from 0, like
\* self.current).
GivenToken(i) == input.tokens[i + 1]
\* The texts of the given tokens at the indexes from..to.
GivenTexts(from, to) ==
  [k \in 1..(to - from + 1) |-> GivenToken(from + k - 1).value]
\* The texts joined by single spaces.
RECURSIVE Joined(_)
Joined(texts) ==
  IF texts = <<>> THEN ""
  ELSE IF Len(texts) = 1 THEN texts[1]
  ELSE texts[1] \o " " \o Joined(Tail(texts))

\* The token list of the scenario of section 8.
Scenario ==
  <<Token("PROGRAM_START", "PROGRAM_START"),
    Token("VARIABLE_DEFINITION", "VARIABLE_DEFINITION"),
    Token("TYPE", "int"), Token("IDENTIFIER", "x"),
    Token("ASSIGN", "ASSIGN"), Token("IDENTIFIER", "1"),
    Token("COMMAND_END", "COMMAND_END"), Token("RETURN", "RETURN"),
    Token("IDENTIFIER", "x"), Token("COMMAND_END", "COMMAND_END"),
    Token("PROGRAM_END", "PROGRAM_END")>>

\* C14: when parse_variable_definition returns its node for the tokens
\* VARIABLE_DEFINITION TYPE(t) IDENTIFIER(n) [ASSIGN e1 .. ek] COMMAND_END
\* (the given tokens from the node's first token to the one before the
\* cursor), the node is a VariableDefinition without children whose text is
\* "t n" without ASSIGN and "t n = " followed by the texts e1 .. ek joined
\* by single spaces with it; and the run on Scenario raises nothing and
\* returns a Program node with exactly the two children
\* VariableDefinition("int x = 1") and Return("x").
C14_VariableDefinitionText ==
  /\ (outcome.status = "running" /\ returned.type = "VariableDefinition"
        /\ current <= Len(input.tokens))
       => LET s == returned.first
              t == GivenToken(s + 1).value
              n == GivenToken(s + 2).value
          IN /\ GivenToken(s).type = "VARIABLE_DEFINITION"
             /\ GivenToken(current - 1).type = "COMMAND_END"
             /\ returned.children = <<>>
             /\ returned.value =
                  IF GivenToken(s + 3).type = "ASSIGN"
                  THEN t \o " " \o n \o " = "
                         \o Joined(GivenTexts(s + 4, current - 2))
                  ELSE t \o " " \o n
  /\ input.tokens = Scenario
       => /\ outcome.status # "raised"
          /\ outcome.status = "returned"
               => /\ returned.type = "Program"
                  /\ returned.value = ""
                  /\ Len(returned.children) = 2
                  /\ returned.children[1].type = "VariableDefinition"
                  /\ returned.children[1].value = "int x = 1"
                  /\ returned.children[1].children = <<>>
                  /\ returned.children[2].type = "Return"
                  /\ returned.children[2].value = "x"
                  /\ returned.children[2].children = <<>>

\* parse() has returned the tree of Scenario.
C14_Witness ==
  /\ outcome.status = "returned"
  /\ input.tokens = Scenario
  /\ Len(returned.children) = 2

\* The kinds of the children of a node, in their stored order.
ChildKinds(node) == [k \in DOMAIN node.children |-> node.children[k].type]

\* The shape that C15 describes, for a node and all nodes below it.
RECURSIVE WellShaped(_)
WellShaped(node) ==
  /\ node.type = "ForLoop"
       => ChildKinds(node)
            = <<"VariableDefinition", "Condition", "Increment", "Block">>
  /\ node.type = "FunctionDefinition"
       => ChildKinds(node) = <<"Parameters", "Block">>
  /\ node.type = "IfConditional"
       => \/ ChildKinds(node) = <<"Block">>
          \/ /\ ChildKinds(node) = <<"Block", "ElseConditional">>
             /\ ChildKinds(node.children[2]) = <<"Block">>
  /\ node.type \in {"Program", "Block"}
       => \A k \in 1..(Len(node.children) - 1) :
            node.children[k].first < node.children[k + 1].first
  /\ \A k \in DOMAIN node.children : WellShaped(node.children[k])

\* C15: every node that a production returns, and so the tree that parse()
\* returns, has the shape of its kind: a ForLoop node has the four children
\* VariableDefinition, Condition, Increment, Block in this order, a
\* FunctionDefinition node the two children Parameters, Block, an
\* IfConditional node a Block and then at most an ElseConditional node
\* whose only child is a Block, and the children of a Program or Block node
\* stand in the order of their first tokens in the input; the root that
\* parse() returns is a Program node.
C15_TreeShape ==
  /\ WellShaped(returned)
  /\ outcome.status = "returned" => returned.type = "Program"

\* parse() has returned a tree whose root has several children, among them
\* an IfConditional node with an else branch.
C15_Witness ==
  /\ outcome.status = "returned"
  /\ Len(returned.children) >= 2
  /\ \E k \in DOMAIN returned.children :
       /\ returned.children[k].type = "IfConditional"
       /\ Len(returned.children[k].children) = 2

\* The places of the nodes of a tree: the path of child numbers from the
\* node the tree hangs on.
RECURSIVE Paths(_)
Paths(node) ==
  {<<>>} \cup UNION {{<<k>> \o p : p \in Paths(node.children[k])} :
                       k \in DOMAIN node.children}
RECURSIVE NodeAt(_, _)
NodeAt(node, path) ==
  IF path = <<>> THEN node
  ELSE NodeAt(node.children[Head(path)], Tail(path))
\* p comes before q in depth-first pre-order with the children in their
\* stored order: p is above q, or p branches off to an earlier child.
ComesBefore(p, q) ==
  /\ p # q
  /\ \/ Len(p) < Len(q) /\ SubSeq(q, 1, Len(p)) = p
     \/ \E i \in 1..Len(p) :
          /\ i <= Len(q)
          /\ SubSeq(p, 1, i - 1) = SubSeq(q, 1, i - 1)
          /\ p[i] < q[i]
\* The number of the line of the node at path p.
LineOf(node, p) == 1 + Cardinality({q \in Paths(node) : ComesBefore(q, p)})
RECURSIVE Spaces(_)
Spaces(n) == IF n = 0 THEN "" ELSE " " \o Spaces(n - 1)

\* lines is the rendering of the tree of node that C16 describes.
Renders(node, lines) ==
  LET paths == Paths(node)
  IN /\ Len(lines) = Cardinality(paths)
     /\ \A p \in paths :
          /\ LineOf(node, p) \in 1..Len(lines)
          /\ lines[LineOf(node, p)] =
               Spaces(2 * Len(p)) \o NodeAt(node, p).type \o "("
                 \o NodeAt(node, p).value \o ")"
          /\ NodeAt(node, p).children # <<>>
               => LineOf(node, p \o <<1>>) = LineOf(node, p) + 1
          /\ \A q \in paths :
               LineOf(node, q) = LineOf(node, p) + 1 => Len(q) <= Len(p) + 1

\* C16: print_tree() of a node emits one line per node of its tree, in
\* depth-first pre-order with the children in their stored order, and the
\* line of a node d levels below is 2*d spaces, the kind, "(", the text and
\* ")"; so the line after a node with children is its first child's, one
\* level deeper, and no line is more than one level deeper than the line
\* before it.  This holds of the lines the driver writes for the tree that
\* parse() returned, and of print_tree() of every node that a production
\* returns.
C16_PrintTreeRendering ==
  /\ Renders(returned, print_tree(returned, 0))
  /\ written # <<>> => Renders(returned, written)

\* The driver has written the tree that parse() returned, of at least six
\* nodes and at least three levels deep.
C16_Witness ==
  /\ outcome.status = "returned"
  /\ Len(written) >= 6
  /\ \E p \in Paths(returned) : Len(p) >= 3

\* The first place of each production that parse_statement_or_block calls.
ProductionEntries ==
  {"block", "function", "variable", "if", "for", "generic"}

\* C17: parse() comes to an end on every token list, by returning or by
\* raising; no step moves the cursor back or by more than one token, and
\* none moves it once it stands at the end of the list; and every round of
\* a loop consumes a token or raises: a round of the clause loops, of the
\* expression loop and of the parameter loop does so in its first step, and
\* a round of the program loop or of a block loop calls
\* parse_statement_or_block, which raises or calls a production, whose
\* first step consumes a token or raises.
C17_TerminatesWithoutBacktracking ==
  /\ <>(outcome.status # "running")
  /\ [][/\ current' \in {current, current + 1}
        /\ tok = NoToken => current' = current
        /\ (\/ At("for_condition") /\ tok # NoToken /\ tok.type # "COMMAND_END"
            \/ At("for_increment") /\ tok # NoToken /\ tok.type # "RIGHT_PAREN"
            \/ At("expression") /\ tok # NoToken
                 /\ tok.type \notin {"COMMAND_END", "RIGHT_PAREN", "BLOCK_END"}
            \/ At("function_params") /\ tok # NoToken
                 /\ tok.type # "RIGHT_PAREN"
            \/ \E pc \in ProductionEntries : At(pc))
             => outcome'.status = "raised" \/ current' = current + 1
        /\ (\/ At("parse_loop") /\ tok # NoToken /\ tok.type # "PROGRAM_END"
            \/ At("block_loop") /\ tok # NoToken /\ tok.type # "BLOCK_END")
             => /\ Len(stack') = Len(stack) + 1
                /\ stack'[Len(stack')].pc = "statement"
        /\ At("statement")
             => \/ outcome'.status = "raised"
                \/ /\ Len(stack') = Len(stack)
                   /\ stack'[Len(stack')].pc \in ProductionEntries]_vars

\* parse() has returned with the cursor at the end of a list of LiveLen
\* tokens, after a block with a definition in it was closed.
C17_Witness ==
  /\ outcome.status = "returned"
  /\ tok = NoToken
  /\ current = LiveLen
  /\ DOMAIN popped # {}

\* The productions parse_block and parse_function_definition on the call
\* stack (saved holds their entry state when input.track holds).
BlocksAndFunctions ==
  {i \in 1..Len(stack) :
     stack[i].pc \in {"block", "block_loop", "function", "function_type",
                      "function_name", "function_paren", "function_params",
                      "function_param_name", "function_body",
                      "function_return"}}

\* C18: while parse_block or parse_function_definition is under way, the
\* scope frames that existed when it was entered are as they were then;
\* when it returns, the scope stack is the one of its entry, and when
\* parse_function_definition returns, defined_functions is the set of its
\* entry with the one function name added.
C18_ScopeStackRestored ==
  /\ [](outcome.status = "running"
          => \A i \in BlocksAndFunctions :
               /\ Len(stack[i].saved.scopes) <= Len(variable_scopes)
               /\ SubSeq(variable_scopes, 1, Len(stack[i].saved.scopes))
                    = stack[i].saved.scopes)
  /\ [][/\ (At("block_loop") /\ Matches("BLOCK_END"))
             => variable_scopes' = Top.saved.scopes
        /\ At("function_return")
             => /\ variable_scopes' = Top.saved.scopes
                /\ defined_functions' = Top.saved.functions \cup {Top.id}]_vars


\* C19: the scope stack is never empty, whether the parse is under way, has
\* raised or has returned.  Its first frame is the global frame of the
\* construction throughout: no step removes it or a binding of it.  When
\* parse() has returned it is the only frame.
C19_GlobalFrameRemains ==
  /\ [](Len(variable_scopes) >= 1)
  /\ [](outcome.status = "returned" => Len(variable_scopes) = 1)
  /\ [][/\ Len(variable_scopes') >= 1
        /\ \A n \in DOMAIN variable_scopes[1] :
             /\ n \in DOMAIN variable_scopes'[1]
             /\ variable_scopes'[1][n] = variable_scopes[1][n]]_vars

\* A parse has returned after a block with a definition in it was closed
\* and with a global definition in the one frame left.
C19_Witness ==
  /\ outcome.status = "returned"
  /\ Len(variable_scopes) = 1
  /\ DOMAIN variable_scopes[1] # {}
  /\ DOMAIN popped # {}


\* C20: block_counter is never negative, and whenever
\* parse_statement_or_block is about to dispatch on a token, the scope stack
\* holds the global frame, one frame for each block counted by block_counter
\* and one frame for each function definition whose body is being parsed.
C20_DepthAtDispatch ==
  /\ block_counter >= 0
  /\ (At("statement") /\ tok # NoToken)
       => Len(variable_scopes)
            = 1 + block_counter + Cardinality(BodiesUnderWay)

\* A dispatch inside a block nested in the body block of a function.
C20_Witness ==
  /\ At("statement")
  /\ tok # NoToken
  /\ block_counter >= 2
  /\ Cardinality(BodiesUnderWay) >= 1
  /\ Len(variable_scopes) = 4

====
